---- MODULE Spec2Model ----
(***************************************************************************)
(* Model of package "system" (src/system.go, the gopkg.in edition, lines   *)
(* 178-365): the ADT System with AddElement and InitOrder.                 *)
(*                                                                         *)
(* Strings are sequences of one-character strings, so that the substring   *)
(* test strings.Contains on the addedElements record is computed, not      *)
(* assumed.  A Go slice is modelled by its visible content; the backing    *)
(* array of someSystem.systemElements is threaded through InitOrder        *)
(* because the local "elements" slice of InitOrder shares it.              *)
(***************************************************************************)
EXTENDS Integers, Sequences, FiniteSets, TLC

VARIABLES systemElements, dependencies, addedElements, removeInPlace,
          op, argElement, argDeps, retErr, retOrder, retDescp,
          inserted, declared, writes, calls, snapshot

vars == <<systemElements, dependencies, addedElements, removeInPlace,
          op, argElement, argDeps, retErr, retOrder, retDescp,
          inserted, declared, writes, calls, snapshot>>

\* InitOrder calls followed statement by statement: for each caller the
\* place it has reached, its locals initOrder and elements, and the stack
\* of the addToInitOrder calls that have not returned; and the element
\* sequence as it was when the calls in progress began
stepping == <<calls, snapshot>>

graph == <<systemElements, dependencies, addedElements>>

\* what the callers did: the identifiers of the successful AddElement calls
\* in the order of the calls, the dependency sequence each of them passed,
\* and the number of assignments made to slices passed to AddElement
history == <<inserted, declared, writes>>

(***************************************************************************)
(* Bounds of the model.                                                    *)
(***************************************************************************)
\* longest dependency sequence passed to AddElement
MaxDeps == 2
\* dependency ids held by the graph plus those of the call being made
MaxEdges == 3
\* the same, in the specifications that follow a call step by step or let
\* the caller write to its slices
MaxEdgesSmall == 2
\* assignments the caller makes to slices it passed to AddElement
MaxWrites == 1

\* identifiers the callers use: "", "a", "b" and "ab"
EmptyId == <<>>
Ids == {EmptyId, <<"a">>, <<"b">>, <<"a", "b">>}

RECURSIVE SeqsUpTo(_, _)
SeqsUpTo(S, n) ==
    IF n = 0 THEN {<<>>}
    ELSE LET shorter == SeqsUpTo(S, n - 1)
         IN  shorter \cup {Append(s, x) : s \in {t \in shorter : Len(t) = n - 1}, x \in S}

DepSeqs == SeqsUpTo(Ids, MaxDeps)

(***************************************************************************)
(* Error values.                                                           *)
(***************************************************************************)
NilError == "nil"
ErrAlreadyAdded == "The element has already been added"
ErrCircleDetected == "A circle has been detected"
ErrElementMissing == "An element is missing"
ErrEmptyElement == "Empty string can not be used as ID of an element."
ErrEmptyDependency == "The ID of a dependency is an empty string."

\* a Go slice value: nil, or a sequence of strings
NilSlice == [isNil |-> TRUE, items |-> <<>>]
Slice(s) == [isNil |-> FALSE, items |-> s]

(***************************************************************************)
(* Library functions used by the package.                                  *)
(***************************************************************************)
\* strings.Contains (s, substr)
StringsContains(s, substr) ==
    \E i \in 0..(Len(s) - Len(substr)) : SubSeq(s, i + 1, i + Len(substr)) = substr

\* slices.IsElementInStringSlice (slice, element)
IsElementInStringSlice(slice, element) ==
    \E i \in 1..Len(slice) : slice[i] = element

\* slices.IndexInStringSlice (slice, element), 0-based, -1 when absent
IndexInStringSlice(slice, element) ==
    IF IsElementInStringSlice(slice, element)
    THEN (CHOOSE i \in 1..Len(slice) :
              /\ slice[i] = element
              /\ \A j \in 1..(i - 1) : slice[j] # element) - 1
    ELSE -1

\* slices.RemoveFromStringSlice (slice, element): the slice it returns
RemoveFromStringSlice(slice, element) ==
    LET i == IndexInStringSlice(slice, element)
    IN  IF i = -1 THEN slice
        ELSE SubSeq(slice, 1, i) \o SubSeq(slice, i + 2, Len(slice))

\* The array behind "elements" after elements = RemoveFromStringSlice
\* (elements, element).  "elements" starts as someSystem.systemElements and
\* so shares its array.  The body of the library function is not part of the
\* package: a removal written append (s [:i], s [i+1:]...) shifts the cells
\* of the shared array, one that builds a new slice leaves it alone.
BackingAfterRemove(inPlace, backing, elements, removed) ==
    IF inPlace /\ Len(removed) < Len(elements)
    THEN removed \o SubSeq(backing, Len(elements), Len(backing))
    ELSE backing

\* someSystem.dependencies [element]: a missing key reads as a nil slice
DepsOf(deps, element) ==
    IF element \in DOMAIN deps THEN deps[element] ELSE <<>>

(***************************************************************************)
(* addToInitOrder, src/system.go 280-359.                                  *)
(***************************************************************************)
CircleDescp(element) == <<"Element '", element, "' is part of the circle.">>
MissingDescp(dependency) == <<"Dependency '", dependency, "' is missing">>

Ret(initOrder, elements, backing, err, descp) ==
    [initOrder |-> initOrder, elements |-> elements, backing |-> backing,
     err |-> err, descp |-> descp]

\* lines 350-358 with the element appended to the init order but left in
\* "elements"
PlaceElementKept(initOrder, element, elements, backing, inPlace) ==
    Ret(Append(initOrder, element), elements, backing, NilError, <<>>)

\* lines 350-358: the element leaves the waiting list and "elements", and
\* is appended to the init order
PlaceElement(initOrder, element, elements, backing, inPlace) ==
    LET removed == RemoveFromStringSlice(elements, element)
    IN  Ret(Append(initOrder, element), removed,
            BackingAfterRemove(inPlace, backing, elements, removed),
            NilError, <<>>)

RECURSIVE addToInitOrder(_, _, _, _, _, _, _)
RECURSIVE addDependencies(_, _, _, _, _, _, _, _)

\* lines 325-348 with a dependency that is not yet in the init order
\* reported as missing instead of being added first
addDependenciesPlacedOnly(initOrder, element, waitingList, elements, backing, deps, inPlace, i) ==
    IF i > Len(DepsOf(deps, element))
    THEN PlaceElement(initOrder, element, elements, backing, inPlace)
    ELSE LET dependency == DepsOf(deps, element)[i]
         IN  IF IsElementInStringSlice(initOrder, dependency)
             THEN addDependencies(initOrder, element, waitingList, elements,
                                  backing, deps, inPlace, i + 1)
             ELSE Ret(<<>>, <<>>, backing, ErrElementMissing, MissingDescp(dependency))

\* lines 325-358: the loop over the dependencies of element, from the i-th
addDependencies(initOrder, element, waitingList, elements, backing, deps, inPlace, i) ==
    IF i > Len(DepsOf(deps, element))
    THEN PlaceElement(initOrder, element, elements, backing, inPlace)
    ELSE LET dependency == DepsOf(deps, element)[i]
         IN  IF IsElementInStringSlice(initOrder, dependency)
             THEN addDependencies(initOrder, element, waitingList, elements,
                                  backing, deps, inPlace, i + 1)
             ELSE IF IndexInStringSlice(elements, dependency) = -1
             THEN Ret(<<>>, <<>>, backing, ErrElementMissing, MissingDescp(dependency))
             ELSE LET r == addToInitOrder(initOrder, dependency, waitingList,
                                          elements, backing, deps, inPlace)
                  IN  IF r.err # NilError
                      THEN Ret(<<>>, <<>>, r.backing, r.err, r.descp)
                      ELSE addDependencies(r.initOrder, element, waitingList,
                                           r.elements, r.backing, deps, inPlace, i + 1)

\* lines 306-323 with the element put in the waiting list before the
\* waiting list is searched for it
addToInitOrderPushFirst(initOrder, element, waitingList, elements, backing, deps, inPlace) ==
    IF Len(DepsOf(deps, element)) = 0
    THEN PlaceElement(initOrder, element, elements, backing, inPlace)
    ELSE IF IsElementInStringSlice(Append(waitingList, element), element)
    THEN Ret(<<>>, <<>>, backing, ErrCircleDetected, CircleDescp(element))
    ELSE addDependencies(initOrder, element, Append(waitingList, element),
                         elements, backing, deps, inPlace, 1)

addToInitOrder(initOrder, element, waitingList, elements, backing, deps, inPlace) ==
    IF IsElementInStringSlice(waitingList, element)
    THEN Ret(<<>>, <<>>, backing, ErrCircleDetected, CircleDescp(element))
    ELSE IF Len(DepsOf(deps, element)) = 0
    THEN PlaceElement(initOrder, element, elements, backing, inPlace)
    ELSE addDependencies(initOrder, element, Append(waitingList, element),
                         elements, backing, deps, inPlace, 1)

(***************************************************************************)
(* System.InitOrder, src/system.go 252-278.                                *)
(***************************************************************************)
RECURSIVE InitOrderLoop(_, _, _, _, _)
\* lines 262-277: the loop, and the return that follows it
InitOrderLoop(initOrder, elements, backing, deps, inPlace) ==
    IF Len(elements) = 0
    THEN [order |-> Slice(initOrder), err |-> NilError, descp |-> <<>>,
          backing |-> backing]
    ELSE LET r == addToInitOrder(initOrder, elements[1], <<>>, elements,
                                 backing, deps, inPlace)
         IN  IF r.err # NilError
             THEN [order |-> NilSlice, err |-> r.err, descp |-> r.descp,
                   backing |-> r.backing]
             ELSE InitOrderLoop(r.initOrder, r.elements, r.backing, deps, inPlace)

\* what InitOrder returns, and the array of systemElements afterwards
InitOrderResult(elements, deps, inPlace) ==
    InitOrderLoop(<<>>, elements, elements, deps, inPlace)

InitOrder ==
    LET r == InitOrderResult(systemElements, dependencies, removeInPlace)
    IN  /\ systemElements' = r.backing
        /\ op' = "InitOrder"
        /\ argElement' = EmptyId
        /\ argDeps' = <<>>
        /\ retErr' = r.err
        /\ retOrder' = r.order
        /\ retDescp' = r.descp
        /\ UNCHANGED <<dependencies, addedElements, removeInPlace, history, stepping>>

(***************************************************************************)
(* System.AddElement, src/system.go 214-231.                               *)
(***************************************************************************)
\* the checks of lines 216-226 with the duplicate check made first
AddElementErrorDuplicateFirst(added, newElement, deps) ==
    IF StringsContains(added, newElement \o <<"/">>) THEN ErrAlreadyAdded
    ELSE IF newElement = EmptyId THEN ErrEmptyElement
    ELSE IF \E i \in 1..Len(deps) : deps[i] = EmptyId THEN ErrEmptyDependency
    ELSE NilError

\* lines 216-226: the error AddElement returns, "nil" when it goes on to
\* store the element
AddElementError(added, newElement, deps) ==
    IF newElement = EmptyId THEN ErrEmptyElement
    ELSE IF \E i \in 1..Len(deps) : deps[i] = EmptyId THEN ErrEmptyDependency
    ELSE IF StringsContains(added, newElement \o <<"/">>) THEN ErrAlreadyAdded
    ELSE NilError

\* line 227 with the new element put in front instead of at the end
AppendElementInFront(elements, newElement) == <<newElement>> \o elements

\* line 227: append (someSystem.systemElements, newElement)
AppendElement(elements, newElement) == Append(elements, newElement)

\* line 228: someSystem.dependencies [newElement] = dependencies
RecordDependencies(depsMap, newElement, deps) ==
    [x \in DOMAIN depsMap \cup {newElement} |->
        IF x = newElement THEN deps ELSE depsMap[x]]

\* line 229: someSystem.addedElements += newElement + "/"
MarkAdded(added, newElement) == added \o newElement \o <<"/">>

RECURSIVE EdgeCount(_, _)
EdgeCount(deps, S) ==
    IF S = {} THEN 0
    ELSE LET x == CHOOSE y \in S : TRUE
         IN  Len(deps[x]) + EdgeCount(deps, S \ {x})

AddElement(newElement, deps) ==
    /\ EdgeCount(dependencies, DOMAIN dependencies) + Len(deps) <= MaxEdges
    /\ LET err == AddElementError(addedElements, newElement, deps)
       IN  /\ op' = "AddElement"
           /\ argElement' = newElement
           /\ argDeps' = deps
           /\ retErr' = err
           /\ retOrder' = NilSlice
           /\ retDescp' = <<>>
           /\ UNCHANGED <<removeInPlace, writes, stepping>>
           /\ IF err # NilError
              THEN UNCHANGED <<graph, inserted, declared>>
              ELSE /\ systemElements' = AppendElement(systemElements, newElement)
                   /\ dependencies' = RecordDependencies(dependencies, newElement, deps)
                   /\ addedElements' = MarkAdded(addedElements, newElement)
                   /\ inserted' = Append(inserted, newElement)
                   /\ declared' = [x \in DOMAIN declared \cup {newElement} |->
                                     IF x = newElement THEN deps ELSE declared[x]]

(***************************************************************************)
(* InitOrder and addToInitOrder statement by statement, for the callers    *)
(* in Procs.  A frame of the stack is one call of addToInitOrder: its      *)
(* element, its waitingList and the index i of the dependency the loop of  *)
(* lines 325-348 is at.  initOrder and elements are assigned from what the *)
(* callee returns (lines 270, 341), so one copy per caller is kept.        *)
(***************************************************************************)
Procs == {1, 2}

NoResult == [order |-> NilSlice, err |-> NilError, descp |-> <<>>]

IdleCall == [pc |-> "idle", initOrder |-> <<>>, elements |-> <<>>,
             stack |-> <<>>, result |-> NoResult]

Running(p) == calls[p].pc \in {"loop", "enter", "deps"}

\* the local slice "elements" of caller p: with a removal in place it is a
\* window on the array of someSystem.systemElements
ElementsOf(p) ==
    IF removeInPlace
    THEN SubSeq(systemElements, 1, Len(calls[p].elements))
    ELSE calls[p].elements

TopFrame(p) == calls[p].stack[Len(calls[p].stack)]

\* lines 254-258
CallStart(p) ==
    /\ ~Running(p)
    /\ calls' = [calls EXCEPT ![p] =
                    [pc |-> "loop", initOrder |-> <<>>, elements |-> systemElements,
                     stack |-> <<>>, result |-> NoResult]]
    /\ snapshot' = IF \E q \in Procs : Running(q) THEN snapshot ELSE systemElements
    /\ UNCHANGED <<graph, removeInPlace, op, argElement, argDeps, retErr,
                   retOrder, retDescp, history>>

\* lines 308-309, 334-335, 345-347, 272-274: the error goes up to the
\* caller of InitOrder
FailCall(p, err, descp) ==
    /\ calls' = [calls EXCEPT ![p] =
                    [pc |-> "done", initOrder |-> <<>>, elements |-> <<>>,
                     stack |-> <<>>,
                     result |-> [order |-> NilSlice, err |-> err, descp |-> descp]]]
    /\ UNCHANGED systemElements

\* lines 314-316 and 353-358: the element of the top frame is placed and
\* the frame returns to the loop of its caller
PlaceCall(p) ==
    LET r == PlaceElement(calls[p].initOrder, TopFrame(p).element, ElementsOf(p),
                          systemElements, removeInPlace)
        n == Len(calls[p].stack)
    IN  /\ systemElements' = r.backing
        /\ calls' = [calls EXCEPT ![p] =
                [pc |-> IF n = 1 THEN "loop" ELSE "deps",
                 initOrder |-> r.initOrder,
                 elements |-> r.elements,
                 stack |-> IF n = 1 THEN <<>>
                           ELSE [SubSeq(calls[p].stack, 1, n - 1) EXCEPT
                                    ![n - 1].i = calls[p].stack[n - 1].i + 1],
                 result |-> NoResult]]

\* lines 262-271 and 277
LoopStep(p) ==
    /\ calls[p].pc = "loop"
    /\ IF Len(ElementsOf(p)) = 0
       THEN calls' = [calls EXCEPT ![p].pc = "done",
                        ![p].result = [order |-> Slice(calls[p].initOrder),
                                       err |-> NilError, descp |-> <<>>]]
       ELSE calls' = [calls EXCEPT ![p].pc = "enter",
                        ![p].stack = <<[element |-> ElementsOf(p)[1],
                                        waitingList |-> <<>>, i |-> 0]>>]
    /\ UNCHANGED <<graph, removeInPlace, op, argElement, argDeps, retErr,
                   retOrder, retDescp, history, snapshot>>

\* lines 306-322
EnterStep(p) ==
    /\ calls[p].pc = "enter"
    /\ LET f == TopFrame(p)
           n == Len(calls[p].stack)
       IN  IF IsElementInStringSlice(f.waitingList, f.element)
           THEN FailCall(p, ErrCircleDetected, CircleDescp(f.element))
           ELSE IF Len(DepsOf(dependencies, f.element)) = 0
           THEN PlaceCall(p)
           ELSE /\ calls' = [calls EXCEPT ![p].pc = "deps",
                                ![p].stack[n].waitingList = Append(f.waitingList, f.element),
                                ![p].stack[n].i = 1]
                /\ UNCHANGED systemElements
    /\ UNCHANGED <<dependencies, addedElements, removeInPlace, op, argElement,
                   argDeps, retErr, retOrder, retDescp, history, snapshot>>

\* lines 325-358
DepsStep(p) ==
    /\ calls[p].pc = "deps"
    /\ LET f == TopFrame(p)
           n == Len(calls[p].stack)
           ds == DepsOf(dependencies, f.element)
       IN  IF f.i > Len(ds)
           THEN PlaceCall(p)
           ELSE IF IsElementInStringSlice(calls[p].initOrder, ds[f.i])
           THEN /\ calls' = [calls EXCEPT ![p].stack[n].i = f.i + 1]
                /\ UNCHANGED systemElements
           ELSE IF IndexInStringSlice(ElementsOf(p), ds[f.i]) = -1
           THEN FailCall(p, ErrElementMissing, MissingDescp(ds[f.i]))
           ELSE /\ calls' = [calls EXCEPT ![p].pc = "enter",
                                ![p].stack = Append(calls[p].stack,
                                    [element |-> ds[f.i],
                                     waitingList |-> f.waitingList, i |-> 0])]
                /\ UNCHANGED systemElements
    /\ UNCHANGED <<dependencies, addedElements, removeInPlace, op, argElement,
                   argDeps, retErr, retOrder, retDescp, history, snapshot>>

CallStep(p) == LoopStep(p) \/ EnterStep(p) \/ DepsStep(p)

(***************************************************************************)
(* New, src/system.go 187-189, and the specification.                      *)
(***************************************************************************)
Init ==
    /\ systemElements = <<>>
    /\ dependencies = [x \in {} |-> <<>>]
    /\ addedElements = <<>>
    /\ removeInPlace \in BOOLEAN
    /\ op = "New"
    /\ argElement = EmptyId
    /\ argDeps = <<>>
    /\ retErr = NilError
    /\ retOrder = NilSlice
    /\ retDescp = <<>>
    /\ inserted = <<>>
    /\ declared = [x \in {} |-> <<>>]
    /\ writes = 0
    /\ calls = [p \in Procs |-> IdleCall]
    /\ snapshot = <<>>

Next ==
    \/ \E newElement \in Ids, deps \in DepSeqs : AddElement(newElement, deps)
    \/ InitOrder

Spec == Init /\ [][Next]_vars

\* the callers build the graph and then ask for the order, once
SpecBuildThenOrder == Init /\ [][op # "InitOrder" /\ Next]_vars

(***************************************************************************)
(* The caller of AddElement keeps the slice it passed: line 228 stores the *)
(* slice value, which shares its array with the caller's.  An assignment   *)
(* deps [i] = v by the caller writes the cell the dependency map reads.    *)
(***************************************************************************)
\* line 228 followed by the caller's deps [i] = v (i counted from 1)
CallerWrite(element, i, v) ==
    /\ writes < MaxWrites
    /\ element \in DOMAIN dependencies
    /\ i \in 1..Len(dependencies[element])
    /\ dependencies[element][i] # v
    /\ dependencies' = [dependencies EXCEPT ![element][i] = v]
    /\ writes' = writes + 1
    /\ op' = "CallerWrite"
    /\ argElement' = element
    /\ argDeps' = <<>>
    /\ retErr' = NilError
    /\ retOrder' = NilSlice
    /\ retDescp' = <<>>
    /\ UNCHANGED <<systemElements, addedElements, removeInPlace, inserted, declared,
                   stepping>>

\* AddElement with the graph and the call kept within MaxEdgesSmall
\* dependency ids
SmallAddElement(newElement, deps) ==
    /\ EdgeCount(dependencies, DOMAIN dependencies) + Len(deps) <= MaxEdgesSmall
    /\ AddElement(newElement, deps)

CallerNext ==
    \/ \E newElement \in Ids, deps \in DepSeqs : SmallAddElement(newElement, deps)
    \/ InitOrder
    \/ \E element \in Ids, i \in 1..MaxDeps, v \in Ids : CallerWrite(element, i, v)

SpecCaller == Init /\ [][CallerNext]_vars

(***************************************************************************)
(* One caller: AddElement calls and InitOrder calls, one after the other,  *)
(* the InitOrder calls taken statement by statement.  A call that has      *)
(* started runs on: the package has no point at which it waits.            *)
(***************************************************************************)
StepsAddElement(newElement, deps) ==
    /\ \A p \in Procs : ~Running(p)
    /\ SmallAddElement(newElement, deps)

StepsNext ==
    \/ \E newElement \in Ids, deps \in DepSeqs : StepsAddElement(newElement, deps)
    \/ CallStart(1)
    \/ CallStep(1)

SpecSteps == Init /\ [][StepsNext]_vars

FairSteps == SpecSteps /\ WF_vars(CallStep(1))

(***************************************************************************)
(* Two callers: the graph is built, then each caller makes one InitOrder   *)
(* call and the statements of the two calls interleave.                    *)
(***************************************************************************)
ConcurrentAddElement(newElement, deps) ==
    /\ \A p \in Procs : calls[p].pc = "idle"
    /\ SmallAddElement(newElement, deps)

ConcurrentStart(p) ==
    /\ calls[p].pc = "idle"
    /\ CallStart(p)

ConcurrentNext ==
    \/ \E newElement \in Ids, deps \in DepSeqs : ConcurrentAddElement(newElement, deps)
    \/ \E p \in Procs : ConcurrentStart(p)
    \/ \E p \in Procs : CallStep(p)

SpecConcurrent == Init /\ [][ConcurrentNext]_vars

(***************************************************************************)
(* The first edition of the package, src/system.go 1-176.  Its AddElement  *)
(* makes no check of empty identifiers and its InitOrder reads             *)
(* elements [0] before it looks at the length.  Its addToInitOrder (lines  *)
(* 96-170) is that of the later edition but for the text of the circle     *)
(* description, which has no final dot.                                    *)
(***************************************************************************)
\* a run-time panic of the Go program: index out of range
Panic == "panic: runtime error: index out of range"

\* lines 40-41: the error the first edition's AddElement returns
AddElementErrorFirstEdition(added, newElement) ==
    IF StringsContains(added, newElement \o <<"/">>) THEN ErrAlreadyAdded
    ELSE NilError

\* lines 29-48
AddElementFirstEdition(newElement, deps) ==
    /\ EdgeCount(dependencies, DOMAIN dependencies) + Len(deps) <= MaxEdgesSmall
    /\ LET err == AddElementErrorFirstEdition(addedElements, newElement)
       IN  /\ op' = "AddElement"
           /\ argElement' = newElement
           /\ argDeps' = deps
           /\ retErr' = err
           /\ retOrder' = NilSlice
           /\ retDescp' = <<>>
           /\ UNCHANGED <<removeInPlace, writes, stepping>>
           /\ IF err # NilError
              THEN UNCHANGED <<graph, inserted, declared>>
              ELSE /\ systemElements' = AppendElement(systemElements, newElement)
                   /\ dependencies' = RecordDependencies(dependencies, newElement, deps)
                   /\ addedElements' = MarkAdded(addedElements, newElement)
                   /\ inserted' = Append(inserted, newElement)
                   /\ declared' = [x \in DOMAIN declared \cup {newElement} |->
                                     IF x = newElement THEN deps ELSE declared[x]]

\* line 122: the description of the first edition
DescpFirstEdition(err, descp) ==
    IF err = ErrCircleDetected
    THEN <<descp[1], descp[2], "' is part of the circle">>
    ELSE descp

RECURSIVE InitOrderLoopFirstEdition(_, _, _, _, _)
\* lines 78-93: the loop, entered with the element list as it is
InitOrderLoopFirstEdition(initOrder, elements, backing, deps, inPlace) ==
    IF Len(elements) = 0
    THEN [order |-> NilSlice, err |-> Panic, descp |-> <<>>, backing |-> backing]
    ELSE LET r == addToInitOrder(initOrder, elements[1], <<>>, elements,
                                 backing, deps, inPlace)
         IN  IF r.err # NilError
             THEN [order |-> NilSlice, err |-> r.err,
                   descp |-> DescpFirstEdition(r.err, r.descp),
                   backing |-> r.backing]
             ELSE IF Len(r.elements) = 0
             THEN [order |-> Slice(r.initOrder), err |-> NilError,
                   descp |-> <<>>, backing |-> r.backing]
             ELSE InitOrderLoopFirstEdition(r.initOrder, r.elements, r.backing,
                                            deps, inPlace)

\* lines 50-94
InitOrderFirstEdition ==
    LET r == InitOrderLoopFirstEdition(<<>>, systemElements, systemElements,
                                       dependencies, removeInPlace)
    IN  /\ systemElements' = r.backing
        /\ op' = "InitOrder"
        /\ argElement' = EmptyId
        /\ argDeps' = <<>>
        /\ retErr' = r.err
        /\ retOrder' = r.order
        /\ retDescp' = r.descp
        /\ UNCHANGED <<dependencies, addedElements, removeInPlace, history, stepping>>

FirstEditionNext ==
    \/ \E newElement \in Ids, deps \in DepSeqs : AddElementFirstEdition(newElement, deps)
    \/ InitOrderFirstEdition

SpecFirstEdition == Init /\ [][FirstEditionNext]_vars

(***************************************************************************)
(* The graph as the callers built it, read from the dependency map.        *)
(***************************************************************************)
Added == DOMAIN dependencies

DeclaredDeps(e) == {dependencies[e][i] : i \in 1..Len(dependencies[e])}

Count(s, x) == Cardinality({i \in 1..Len(s) : s[i] = x})

Precedes(s, d, e) ==
    \E i \in 1..Len(s), j \in 1..Len(s) : i < j /\ s[i] = d /\ s[j] = e

RECURSIVE ReachableFrom(_, _)
\* the identifiers reached from the set S by at most n more dependency edges
ReachableFrom(S, n) ==
    IF n = 0 THEN S
    ELSE ReachableFrom(S \cup UNION {DeclaredDeps(e) : e \in S \cap Added}, n - 1)

OnCycle(e) == e \in ReachableFrom(DeclaredDeps(e), Cardinality(Ids))

HasCycle == \E e \in Added : OnCycle(e)

AllDepsAdded == \A e \in Added : DeclaredDeps(e) \subseteq Added

MissingDeps == UNION {DeclaredDeps(e) : e \in Added} \ Added

InitOrderReturned == op = "InitOrder"

HasEmptyDependency(deps) == \E i \in 1..Len(deps) : deps[i] = EmptyId

(***************************************************************************)
(* The traversal of the spec (section 4.2): a depth-first post-order walk  *)
(* with the three states unvisited, in-progress and done, over the         *)
(* identifiers in insertion order and the dependencies as declared.        *)
(***************************************************************************)
RefRet(output, err, named) == [output |-> output, err |-> err, named |-> named]

RECURSIVE RefVisit(_, _, _)
RECURSIVE RefVisitDeps(_, _, _, _)

\* step 3 of the visit of e, from its i-th dependency; step 4 when none is left
RefVisitDeps(e, inProgress, output, i) ==
    IF i > Len(declared[e])
    THEN RefRet(Append(output, e), NilError, EmptyId)
    ELSE LET d == declared[e][i]
         IN  IF IsElementInStringSlice(output, d)
             THEN RefVisitDeps(e, inProgress, output, i + 1)
             ELSE IF d \notin DOMAIN declared
             THEN RefRet(<<>>, ErrElementMissing, d)
             ELSE LET r == RefVisit(d, inProgress, output)
                  IN  IF r.err # NilError THEN r
                      ELSE RefVisitDeps(e, inProgress, r.output, i + 1)

\* steps 1 and 2 of the visit of e
RefVisit(e, inProgress, output) ==
    IF e \in inProgress
    THEN RefRet(<<>>, ErrCircleDetected, e)
    ELSE RefVisitDeps(e, inProgress \cup {e}, output, 1)

RECURSIVE RefFrom(_, _)
\* the identifiers from the k-th in insertion order, skipping the done ones
RefFrom(k, output) ==
    IF k > Len(inserted) THEN RefRet(output, NilError, EmptyId)
    ELSE IF IsElementInStringSlice(output, inserted[k]) THEN RefFrom(k + 1, output)
    ELSE LET r == RefVisit(inserted[k], {}, output)
         IN  IF r.err # NilError THEN r ELSE RefFrom(k + 1, r.output)

RefOutcome == RefFrom(1, <<>>)

\* the error description that names what the traversal of the spec names
RefDescp(r) ==
    IF r.err = ErrCircleDetected THEN CircleDescp(r.named)
    ELSE IF r.err = ErrElementMissing THEN MissingDescp(r.named)
    ELSE <<>>

\* C1: whenever InitOrder returns without error, every declared dependency
\* of every element of the graph occurs in the returned sequence strictly
\* before the element.
C1_DependenciesFirst ==
    (InitOrderReturned /\ retErr = NilError) =>
        \A e \in Added : \A d \in DeclaredDeps(e) :
            Precedes(retOrder.items, d, e)

\* C2: on a graph whose declared dependencies are all added and that has no
\* cycle, InitOrder returns a nil error and a sequence holding each of the N
\* added identifiers exactly once and nothing else.
C2_Completeness ==
    (InitOrderReturned /\ AllDepsAdded /\ ~HasCycle) =>
        /\ retErr = NilError
        /\ ~retOrder.isNil
        /\ Len(retOrder.items) = Cardinality(Added)
        /\ \A e \in Added : Count(retOrder.items, e) = 1

\* C3: on a graph whose declared dependencies are all added and that has a
\* dependency cycle, InitOrder returns ErrCircleDetected and a nil order.
C3_CycleRejected ==
    (InitOrderReturned /\ AllDepsAdded /\ HasCycle) =>
        /\ retErr = ErrCircleDetected
        /\ retOrder.isNil

\* C4: on a graph without a cycle in which some element declares a
\* dependency that was never added, InitOrder returns ErrElementMissing and
\* a nil order, and the description names a declared dependency that is not
\* an added element.
C4_MissingReported ==
    (InitOrderReturned /\ ~HasCycle /\ MissingDeps # {}) =>
        /\ retErr = ErrElementMissing
        /\ retOrder.isNil
        /\ \E d \in MissingDeps : retDescp = MissingDescp(d)

\* C5: an InitOrder call, succeeding or failing, leaves the element
\* sequence, the dependency map and the added-elements record as they were.
C5_InitOrderReadOnly ==
    [][op' = "InitOrder" =>
          /\ systemElements' = systemElements
          /\ dependencies' = dependencies
          /\ addedElements' = addedElements]_vars

\* C6: an InitOrder call that directly follows an InitOrder call returns
\* what that call returned.
C6_RepeatedInitOrder ==
    [][(op = "InitOrder" /\ op' = "InitOrder") =>
          /\ retErr' = retErr
          /\ retOrder' = retOrder
          /\ retDescp' = retDescp]_vars

\* C7: AddElement with an id that was added before (and dependency ids that
\* pass the validation) returns ErrAlreadyAdded and leaves the graph as it
\* was; the element sequence still holds the id exactly once and the
\* dependency sequence recorded for it is the one of the first call.
C7_DuplicateRejected ==
    [][(op' = "AddElement" /\ argElement' \in Added
            /\ ~HasEmptyDependency(argDeps')) =>
          /\ retErr' = ErrAlreadyAdded
          /\ UNCHANGED graph
          /\ Count(systemElements', argElement') = 1]_vars

\* C8: AddElement returns ErrAlreadyAdded only for an id that an earlier
\* successful AddElement added.
C8_AlreadyAddedOnlyForAdded ==
    (op = "AddElement" /\ retErr = ErrAlreadyAdded) => argElement \in Added

\* C9: AddElement with an empty id, or with an empty string among the
\* dependency ids, returns the validation error, whether or not the id was
\* added before, and changes nothing of the graph.
C9_ValidationFirst ==
    [][(op' = "AddElement" /\ (argElement' = EmptyId \/ HasEmptyDependency(argDeps'))) =>
          /\ retErr' = IF argElement' = EmptyId THEN ErrEmptyElement
                       ELSE ErrEmptyDependency
          /\ UNCHANGED graph]_vars

C9_Witness ==
    /\ op = "AddElement"
    /\ retErr = ErrEmptyDependency
    /\ argElement \in Added
    /\ systemElements # <<>>

\* C10: a successful AddElement appends the id to the element sequence,
\* records the given dependency sequence against it and marks it in the
\* added-elements record; the earlier positions and the dependency sequences
\* of the earlier elements stay as they were.
C10_SuccessfulAdd ==
    [][(op' = "AddElement" /\ retErr' = NilError) =>
          /\ systemElements' = Append(systemElements, argElement')
          /\ DOMAIN dependencies' = Added \cup {argElement'}
          /\ dependencies'[argElement'] = argDeps'
          /\ \A e \in Added : dependencies'[e] = dependencies[e]
          /\ addedElements' = addedElements \o argElement' \o <<"/">>
          /\ StringsContains(addedElements', argElement' \o <<"/">>)]_vars

C10_Witness ==
    /\ op = "AddElement"
    /\ retErr = NilError
    /\ Len(systemElements) >= 2
    /\ argDeps # <<>>

\* C11: the dependency sequence the graph holds for an added element is the
\* one given at its successful AddElement, whatever AddElement calls,
\* InitOrder calls and writes of the caller to the slices it passed follow.
C11_DependenciesFixed ==
    \A e \in Added : e \in DOMAIN declared /\ dependencies[e] = declared[e]

\* C12: InitOrder on a graph to which no element was added returns an empty
\* sequence and a nil error; it does not panic.
C12_EmptyGraph ==
    (InitOrderReturned /\ inserted = <<>>) =>
        /\ retErr = NilError
        /\ ~retOrder.isNil
        /\ retOrder.items = <<>>

\* C13: when the graph has a cycle or a missing dependency, or several, the
\* error InitOrder returns and the identifier it names are those the
\* depth-first traversal in insertion order and declared order reaches
\* first, and the order returned is nil.
C13_FailFast ==
    (InitOrderReturned /\ RefOutcome.err # NilError) =>
        /\ retErr = RefOutcome.err
        /\ retDescp = RefDescp(RefOutcome)
        /\ retOrder.isNil

\* C17: when InitOrder fails with ErrCircleDetected, the identifier named in
\* the description is an added element that reaches itself through one or
\* more declared dependency edges.
C17_NamedOnCycle ==
    (InitOrderReturned /\ retErr = ErrCircleDetected) =>
        \E e \in Added : retDescp = CircleDescp(e) /\ OnCycle(e)

C17_Witness ==
    /\ InitOrderReturned
    /\ retErr = ErrCircleDetected
    /\ \E e \in Added :
          /\ retDescp = CircleDescp(e)
          /\ e \notin DeclaredDeps(e)
          /\ inserted[1] # e

\* an element that was inserted before one of its declared dependencies
HasForwardReference ==
    \E e \in Added : \E d \in DeclaredDeps(e) \cap Added :
        IndexInStringSlice(inserted, e) < IndexInStringSlice(inserted, d)

C19_EarlierCallsNoEffect ==
    InitOrderReturned =>
        LET alone == InitOrderResult(inserted, dependencies, removeInPlace)
        IN  /\ retErr = alone.err
            /\ retOrder = alone.order
            /\ retDescp = alone.descp

\* C16: the outcome of InitOrder, the sequence on success or the error and
\* the identifier it names on failure, is the outcome of the three-state
\* depth-first post-order traversal of the spec on the same graph.
C16_RefinesTraversal ==
    InitOrderReturned =>
        /\ retErr = RefOutcome.err
        /\ retDescp = RefDescp(RefOutcome)
        /\ retOrder = IF RefOutcome.err = NilError
                      THEN Slice(RefOutcome.output) ELSE NilSlice

\* C15: a started InitOrder call terminates, on graphs with cycles or
\* missing dependencies too.  Within a call the remaining list never
\* grows; a visit that returns has either failed, ending the call with an
\* error, or appended its identifier to the output and taken one
\* identifier off the remaining list, so an iteration of the outer loop
\* that does not return an error removes at least one identifier.
C15_VisitReturns ==
    (Running(1) /\ calls'[1] # calls[1]) =>
        /\ Len(ElementsOf(1)') <= Len(ElementsOf(1))
        /\ Len(calls'[1].stack) < Len(calls[1].stack) =>
              \/ /\ calls'[1].pc = "done"
                 /\ calls'[1].result.err # NilError
              \/ /\ calls'[1].initOrder =
                        Append(calls[1].initOrder, TopFrame(1).element)
                 /\ Len(ElementsOf(1)') = Len(ElementsOf(1)) - 1

C15_Terminates ==
    /\ [][C15_VisitReturns]_vars
    /\ Running(1) ~> calls[1].pc = "done"

\* a call that took the first identifier off the remaining list and then
\* ended on a cycle
C15_Witness ==
    /\ calls[1].pc = "done"
    /\ calls[1].result.err = ErrCircleDetected
    /\ Len(snapshot) >= 2
    /\ Len(DepsOf(dependencies, snapshot[1])) = 0
\* the identifiers of a sequence
Range(s) == {s[i] : i \in 1..Len(s)}

\* the identifiers on the waiting list of some addToInitOrder call of
\* caller 1 that has not returned
WaitingIds ==
    UNION {Range(calls[1].stack[k].waitingList) : k \in 1..Len(calls[1].stack)}

\* the identifiers some addToInitOrder call of caller 1 is visiting
VisitedIds ==
    {calls[1].stack[k].element : k \in 1..Len(calls[1].stack)}

\* 0 unvisited, 1 in progress, 2 done
Stage(id) ==
    IF id \in Range(calls[1].initOrder) THEN 2
    ELSE IF id \in WaitingIds \cup VisitedIds THEN 1
    ELSE 0

C20_WorkingState ==
    Running(1) =>
        /\ \A id \in Ids : Count(calls[1].initOrder, id) <= 1
        /\ Range(calls[1].initOrder) \cap Range(ElementsOf(1)) = {}
        /\ Range(calls[1].initOrder) \cup Range(ElementsOf(1)) = Added
        /\ WaitingIds \subseteq Range(ElementsOf(1))
        /\ WaitingIds \cap Range(calls[1].initOrder) = {}
        /\ \A k \in 1..Len(calls[1].initOrder) :
              \A d \in DeclaredDeps(calls[1].initOrder[k]) :
                 \E j \in 1..(k - 1) : calls[1].initOrder[j] = d

C20_Moves ==
    (Running(1) /\ Running(1)') =>
        \A id \in Ids : Stage(id)' >= Stage(id)

\* C20: at every step of an InitOrder call the output has no duplicates,
\* the output and the remaining list are disjoint and together hold
\* exactly the added identifiers, every waiting-list identifier is in the
\* remaining list and not in the output, and every identifier in the
\* output has its declared dependencies earlier in the output; an
\* identifier goes from unvisited to in progress to done and never back.
C20_StepInvariants ==
    /\ []C20_WorkingState
    /\ [][C20_Moves]_vars
\* C14: an InitOrder call that ran interleaved with another InitOrder
\* call, with no AddElement during either, returns what a single InitOrder
\* call on that graph returns alone.
C14_ConcurrentReaders ==
    \A p \in Procs :
        (calls[p].pc = "done" /\ snapshot = inserted) =>
            LET alone == InitOrderResult(inserted, dependencies, removeInPlace)
            IN  calls[p].result =
                    [order |-> alone.order, err |-> alone.err, descp |-> alone.descp]
====
